---- MODULE Spec2Model ----
(***************************************************************************)
(* Model of the check coordination engine of check_graphite: the monzero   *)
(* Checker (Checker.Next: claim, execute under a deadline, update,         *)
(* notify, commit) driven by the daemon loop of main, with the graphite    *)
(* threshold executor runner.runCheck as the executor.                     *)
(*                                                                         *)
(* The relational store is modelled by its committed tables                *)
(* (active_checks, notifications), the row locks taken by                  *)
(* "select ... for update skip locked", and per transaction the writes     *)
(* that are pending until commit.  Time is a discrete clock.               *)
(***************************************************************************)
EXTENDS Integers, Sequences, FiniteSets, TLC

\* ------------------------------------------------------------------------
\* Bounds of the model
\* ------------------------------------------------------------------------
NumWorkers == 2

NumChecks == 2

MaxTime == 2

\* the configured timeout of a cycle, in steps of the clock
Timeout == 1

Workers == 1..NumWorkers

CheckIds == 1..NumChecks

\* the checker ids a CheckerConfig may carry and a row may be owned by
CheckerIDs == {0, 1}

\* ------------------------------------------------------------------------
\* Messages: a format text and its argument
\* ------------------------------------------------------------------------
Msg(text, arg) == [text |-> text, arg |-> arg]

NoMsg == Msg("", 0)

\* CheckResult
CheckResult(code, msg) == [ExitCode |-> code, Message |-> msg]

NoResult == CheckResult(0, NoMsg)

\* ------------------------------------------------------------------------
\* The command tokens of a check, as runCheck's flag set parses them
\* ------------------------------------------------------------------------
Command(addr, key, warn, err, retries) ==
    [addr |-> addr, interval |-> "60s", key |-> key, warn |-> warn,
     error |-> err, retries |-> retries, message |-> "current value: %f"]

CmdDescending == Command("graphite", "load", 4, 2, 1)

CmdAscending == Command("graphite", "load", 6, 8, 0)

CmdNoAddr == Command("", "load", 4, 8, 0)

\* a datapoint [value-or-null, timestamp]; the timestamp is never read
Pt(v) == [nil |-> FALSE, v |-> v]

NilPt == [nil |-> TRUE, v |-> 0]

\* response bodies of the backend: arrays of series of datapoints
Payloads ==
    { << <<NilPt>> >>,
      << <<Pt(5), Pt(3)>> >>,
      << <<Pt(5)>>, <<NilPt, Pt(9)>> >> }

\* ------------------------------------------------------------------------
\* Threshold evaluation of runCheck
\* ------------------------------------------------------------------------
RECURSIVE Flatten(_)
Flatten(payload) ==
    IF payload = << >> THEN << >> ELSE Head(payload) \o Flatten(Tail(payload))

\* a loop body whose warning branch does not test the code reached so far
EvalPointDowngrading(acc, point, warn, err) ==
    IF point.nil THEN acc
    ELSE IF err < warn
    THEN LET cur == IF ~acc.has \/ point.v < acc.cur THEN point.v ELSE acc.cur
             code == IF point.v <= err /\ acc.code # 1 THEN 2
                     ELSE IF point.v <= warn THEN 1
                     ELSE acc.code
         IN [cur |-> cur, has |-> TRUE, code |-> code]
    ELSE LET cur == IF ~acc.has \/ point.v > acc.cur THEN point.v ELSE acc.cur
             code == IF point.v >= err /\ acc.code # 1 THEN 2
                     ELSE IF point.v >= warn THEN 1
                     ELSE acc.code
         IN [cur |-> cur, has |-> TRUE, code |-> code]

\* one iteration of the loop body over a datapoint; acc = [cur, has, code]
EvalPoint(acc, point, warn, err) ==
    IF point.nil THEN acc
    ELSE IF err < warn
    THEN LET cur == IF ~acc.has \/ point.v < acc.cur THEN point.v ELSE acc.cur
             code == IF point.v <= err /\ acc.code # 1 THEN 2
                     ELSE IF point.v <= warn /\ acc.code = 0 THEN 1
                     ELSE acc.code
         IN [cur |-> cur, has |-> TRUE, code |-> code]
    ELSE LET cur == IF ~acc.has \/ point.v > acc.cur THEN point.v ELSE acc.cur
             code == IF point.v >= err /\ acc.code # 1 THEN 2
                     ELSE IF point.v >= warn /\ acc.code = 0 THEN 1
                     ELSE acc.code
         IN [cur |-> cur, has |-> TRUE, code |-> code]

RECURSIVE EvalPoints(_, _, _, _)
EvalPoints(acc, points, warn, err) ==
    IF points = << >> THEN acc
    ELSE EvalPoints(EvalPoint(acc, Head(points), warn, err), Tail(points), warn, err)

\* curVal and result.ExitCode as the scan starts
ScanStart == [cur |-> 0, has |-> FALSE, code |-> 0]

\* an end of the evaluation that leaves the code at 3 when no value was found
ConcludeAsUnknown(acc, message) ==
    IF ~acc.has
    THEN CheckResult(3, Msg("No values received for query! Is the host down?", 0))
    ELSE CheckResult(acc.code, Msg(message \o "\n", acc.cur))

\* the end of the evaluation: no value found, or the message from the template
Conclude(acc, message) ==
    IF ~acc.has
    THEN CheckResult(2, Msg("No values received for query! Is the host down?", 0))
    ELSE CheckResult(acc.code, Msg(message \o "\n", acc.cur))

Evaluate(payload, cmd) ==
    Conclude(EvalPoints(ScanStart, Flatten(payload), cmd.warn, cmd.error), cmd.message)

\* ------------------------------------------------------------------------
\* Rows of active_checks, checks_notify, mapping_level
\* ------------------------------------------------------------------------
Row(checker_id, enabled, next_time, intval, states, ack, mapping_id, cmd) ==
    [checker_id |-> checker_id, enabled |-> enabled, next_time |-> next_time,
     intval |-> intval, states |-> states, msg |-> NoMsg, acknowledged |-> ack,
     state_since |-> next_time - 1, mapping_id |-> mapping_id, cmdLine |-> cmd]

\* the rows a check may start as
InitRows ==
    << Row(0, TRUE, -1, 3, << >>, TRUE, 1, CmdDescending),
       Row(0, TRUE, -1, 3, <<2, 0>>, TRUE, 1, CmdAscending),
       Row(1, TRUE, -1, 1, <<1>>, FALSE, 1, CmdDescending),
       Row(0, TRUE, 0, 0, <<0, 1, 1, 1, 1>>, FALSE, 1, CmdDescending),
       Row(0, FALSE, -1, 1, <<0>>, FALSE, 1, CmdDescending),
       Row(0, TRUE, -2, 3, <<3>>, FALSE, 1, CmdNoAddr) >>

\* the tables the store may start as: consecutive rows of InitRows
InitTables ==
    { [c \in CheckIds |-> InitRows[((s + c - 2) % Len(InitRows)) + 1]] :
        s \in 1..Len(InitRows) }

\* checks_notify: notifiers attached to checks
checks_notify ==
    { [check_id |-> c, notifier_id |-> 1, enabled |-> TRUE] : c \in CheckIds }
    \cup { [check_id |-> c, notifier_id |-> 2, enabled |-> FALSE] : c \in CheckIds }

\* mapping_level: (mapping_id, source) -> target
mapping_level ==
    { [mapping_id |-> 1, source |-> 0, target |-> 0],
      [mapping_id |-> 1, source |-> 1, target |-> 1],
      [mapping_id |-> 1, source |-> 2, target |-> 2],
      [mapping_id |-> 1, source |-> 3, target |-> 3] }

\* ------------------------------------------------------------------------
\* State
\* ------------------------------------------------------------------------
VARIABLES
    cfg,            \* the CheckerConfig every worker builds its Checker from
    now,            \* the clock
    active_checks,  \* committed rows of active_checks
    notifications,  \* committed rows of notifications, in insertion order
    rowLock,        \* row locks: check id -> the workers whose transaction holds the row
    pc,             \* position of each worker
    check,          \* the Check struct scanned by the select of Next
    tx,             \* the worker's open transaction: now() and pending writes
    ctxStart,       \* when the cycle's context.WithTimeout was created
    attempt,        \* loop counter i of runCheck's request loop
    raw,            \* what the executor returned
    returnedAt,     \* when the executor returned
    result,         \* result after the deadline test of Next
    backToOkay,     \* the recovery flag of Next
    ret,            \* what the last call of Next returned
    committed,      \* whether the last tx.Commit() of the worker succeeded
    scan,           \* a call of runCheck's threshold evaluation taken alone
    req,            \* a call of runCheck up to its answer taken alone
    child,          \* a call of CheckExec taken alone
    enc             \* a States value on its way through Value and Scan

\* the calls taken alone, which the engine never touches
fnVars == <<scan, req, child, enc>>

engineVars == <<cfg, now, active_checks, notifications, rowLock, pc, check, tx,
                ctxStart, attempt, raw, returnedAt, result, backToOkay, ret, committed>>

vars == <<engineVars, fnVars>>

\* no call is taken alone
NoCall == [pc |-> "none"]

FnsParked == scan = NoCall /\ req = NoCall /\ child = NoCall /\ enc = NoCall

NoCheckStruct == [id |-> 0, Command |-> CmdNoAddr, ExitCodes |-> << >>, mappingId |-> 0]

NoTx == [now |-> 0, check |-> 0, updated |-> FALSE, row |-> Row(0, FALSE, 0, 0, << >>, FALSE, 0, CmdNoAddr),
         notifs |-> << >>]

\* NewChecker: the Checker built from a CheckerConfig
NewChecker(config) ==
    [id |-> 0, timeout |-> config.Timeout, ident |-> config.HostIdentifier,
     logger |-> config.Logger]

checker == NewChecker(cfg)

InitEngine ==
    /\ cfg \in [CheckerID : CheckerIDs, Timeout : {Timeout},
                HostIdentifier : {"host"}, Logger : {"nil", "set"}]
    /\ now = 0
    /\ active_checks \in InitTables
    /\ notifications = << >>
    /\ rowLock = [c \in CheckIds |-> {}]
    /\ pc = [w \in Workers |-> "idle"]
    /\ check = [w \in Workers |-> NoCheckStruct]
    /\ tx = [w \in Workers |-> NoTx]
    /\ ctxStart = [w \in Workers |-> 0]
    /\ attempt = [w \in Workers |-> 0]
    /\ raw = [w \in Workers |-> NoResult]
    /\ returnedAt = [w \in Workers |-> 0]
    /\ result = [w \in Workers |-> NoResult]
    /\ backToOkay = [w \in Workers |-> FALSE]
    /\ ret = [w \in Workers |-> "none"]
    /\ committed = [w \in Workers |-> FALSE]

Init == InitEngine /\ FnsParked

\* ------------------------------------------------------------------------
\* The select of Next
\* ------------------------------------------------------------------------
\* a select that does not skip rows locked by others
UnlockedIgnoringLocks(locks, c) == TRUE

\* "for update skip locked": a row locked by an open transaction is skipped
Unlocked(locks, c) == locks[c] = {}

\* where next_time < now() and enabled and checker_id = $1
Matches(row, id) == row.next_time < now /\ row.enabled /\ row.checker_id = id

Candidates(id) ==
    { c \in CheckIds : Matches(active_checks[c], id) /\ Unlocked(rowLock, c) }

\* order by next_time ... limit 1: the rows the select may return
SelectNext(id) ==
    { c \in Candidates(id) :
        \A d \in Candidates(id) : active_checks[c].next_time <= active_checks[d].next_time }

\* Next returns value: its locals other than the claimed Check are gone
Returns(w, value) ==
    /\ pc' = [pc EXCEPT ![w] = "returned"]
    /\ ret' = [ret EXCEPT ![w] = value]
    /\ ctxStart' = [ctxStart EXCEPT ![w] = 0]
    /\ attempt' = [attempt EXCEPT ![w] = 0]
    /\ raw' = [raw EXCEPT ![w] = NoResult]
    /\ returnedAt' = [returnedAt EXCEPT ![w] = 0]
    /\ result' = [result EXCEPT ![w] = NoResult]
    /\ backToOkay' = [backToOkay EXCEPT ![w] = FALSE]

\* a rollback that leaves the writes of t in the store
RollbackKeepingWrites(db, t) ==
    [checks |-> IF t.updated THEN [db.checks EXCEPT ![t.check] = t.row] ELSE db.checks,
     notifs |-> db.notifs \o t.notifs]

\* defer tx.Rollback(): the store after the transaction t is rolled back
Rollback(db, t) == db

\* tx.Commit(): the store after the transaction t is committed
Commit(db, t) ==
    [checks |-> IF t.updated THEN [db.checks EXCEPT ![t.check] = t.row] ELSE db.checks,
     notifs |-> db.notifs \o t.notifs]

Store == [checks |-> active_checks, notifs |-> notifications]

\* the transaction of w ends: its locks are released
EndTx(w, db) ==
    /\ active_checks' = db.checks
    /\ notifications' = db.notifs
    /\ rowLock' = [c \in CheckIds |-> rowLock[c] \ {w}]
    /\ tx' = [tx EXCEPT ![w] = NoTx]

\* The executor is the only part of the loop that waits for anything but
\* the store.  A worker between the return of its executor and its next
\* call of Next touches only its own transaction and the row it has locked,
\* so it runs on without a step of another worker, or of the clock, in
\* between: every outcome for the store and for the other workers is kept.
NoneBusy == \A w \in Workers : pc[w] \notin {"persist", "returned"}

\* c.db.Begin() fails
BeginFail(w) ==
    /\ NoneBusy
    /\ pc[w] = "idle"
    /\ Returns(w, "could not start database transaction")
    /\ UNCHANGED <<fnVars, cfg, now, active_checks, notifications, rowLock, check, tx,
                   committed>>

\* the select fails with an error other than sql.ErrNoRows
SelectFail(w) ==
    /\ NoneBusy
    /\ pc[w] = "idle"
    /\ Returns(w, "could not get next check")
    /\ EndTx(w, Rollback(Store, tx[w]))
    /\ UNCHANGED <<fnVars, cfg, now, check, committed>>

\* the select finds no row: sql.ErrNoRows
SelectNoRows(w) ==
    /\ NoneBusy
    /\ pc[w] = "idle"
    /\ SelectNext(checker.id) = {}
    /\ Returns(w, "ErrNoCheck")
    /\ EndTx(w, Rollback(Store, tx[w]))
    /\ UNCHANGED <<fnVars, cfg, now, check, committed>>

\* the select returns and locks a row; the cycle's context is created
SelectClaim(w) ==
    /\ NoneBusy
    /\ pc[w] = "idle"
    /\ \E c \in SelectNext(checker.id) :
        /\ rowLock' = [rowLock EXCEPT ![c] = @ \cup {w}]
        /\ check' = [check EXCEPT ![w] =
                        [id |-> c, Command |-> active_checks[c].cmdLine,
                         ExitCodes |-> active_checks[c].states,
                         mappingId |-> active_checks[c].mapping_id]]
        /\ tx' = [tx EXCEPT ![w] = [NoTx EXCEPT !.now = now, !.check = c]]
    /\ ctxStart' = [ctxStart EXCEPT ![w] = now]
    /\ attempt' = [attempt EXCEPT ![w] = 0]
    /\ pc' = [pc EXCEPT ![w] = "exec"]
    /\ UNCHANGED <<fnVars, cfg, now, active_checks, notifications, raw, returnedAt, result,
                   backToOkay, ret, committed>>

\* ------------------------------------------------------------------------
\* The executor: runner.runCheck
\* ------------------------------------------------------------------------
\* statuses the backend answers with
Statuses == {200, 503}

\* whether r.client.Get is given the context of the cycle, so that the
\* request ends when the deadline expires
ClientGetBoundByContext == FALSE

\* what reading and decoding a response body gives
Bodies == { [kind |-> "json", data |-> p] : p \in Payloads }

\* checks of the parsed flags that leave out the key
ArgsErrorWithoutKey(cmd) ==
    IF cmd.addr = "" THEN "no address given to check"
    ELSE IF cmd.interval = "" THEN "no interval given"
    ELSE ""

\* the checks of the parsed flags before any request
ArgsError(cmd) ==
    IF cmd.addr = "" THEN "no address given to check"
    ELSE IF cmd.interval = "" THEN "no interval given"
    ELSE IF cmd.key = "" THEN "no key given"
    ELSE ""

\* ctx.Err() == context.DeadlineExceeded at time t
DeadlineExceeded(start, timeout, t) == t >= start + timeout

\* a deadline test that reports a timeout as unknown
ApplyDeadlineAsUnknown(r, exceeded, timeout) ==
    IF exceeded THEN CheckResult(3, Msg("check took longer than %s", timeout)) ELSE r

\* the deadline test of Next on the executor's result
ApplyDeadline(r, exceeded, timeout) ==
    IF exceeded THEN CheckResult(2, Msg("check took longer than %s", timeout)) ELSE r

\* a recovery flag that takes every ok result for a recovery
BackToOkayOnEveryOk(ExitCodes, code) == code = 0

\* the recovery flag
BackToOkay(ExitCodes, code) ==
    IF Len(ExitCodes) = 0 /\ code = 0 THEN TRUE
    ELSE IF Len(ExitCodes) > 0 /\ ExitCodes[1] > 0 /\ code = 0 THEN TRUE
    ELSE FALSE

\* The executor returns r to Next, which tests the deadline, logs the result
\* and computes the recovery flag.  c.logger.Debug on a nil *slog.Logger
\* panics: the process ends, every connection is closed and every open
\* transaction is rolled back.
ExecutorReturns(w, r) ==
    LET res == ApplyDeadline(r, DeadlineExceeded(ctxStart[w], checker.timeout, now),
                             checker.timeout)
    IN /\ raw' = [raw EXCEPT ![w] = r]
       /\ returnedAt' = [returnedAt EXCEPT ![w] = now]
       /\ result' = [result EXCEPT ![w] = res]
       /\ IF checker.logger = "nil"
          THEN /\ pc' = [v \in Workers |-> "crashed"]
               /\ rowLock' = [c \in CheckIds |-> {}]
               /\ tx' = [v \in Workers |-> NoTx]
               /\ UNCHANGED backToOkay
          ELSE /\ pc' = [pc EXCEPT ![w] = "persist"]
               /\ backToOkay' = [backToOkay EXCEPT ![w] =
                                   BackToOkay(check[w].ExitCodes, res.ExitCode)]
               /\ UNCHANGED <<rowLock, tx>>

\* a required flag is empty: code 3 without any request
ArgsInvalid(w) ==
    /\ NoneBusy
    /\ pc[w] = "exec"
    /\ ArgsError(check[w].Command) # ""
    /\ ExecutorReturns(w, CheckResult(3, Msg(ArgsError(check[w].Command), 0)))
    /\ UNCHANGED <<fnVars, cfg, now, active_checks, notifications, check, ctxStart, attempt,
                   ret, committed>>

\* r.client.Get fails
HttpTransportError(w) ==
    /\ NoneBusy
    /\ pc[w] = "exec"
    /\ ArgsError(check[w].Command) = ""
    /\ attempt[w] < check[w].Command.retries + 1
    /\ ExecutorReturns(w, CheckResult(3, Msg("could not get result: %s", 0)))
    /\ UNCHANGED <<fnVars, cfg, now, active_checks, notifications, check, ctxStart, attempt,
                   ret, committed>>

\* a request loop that also tries again on status 500
LoopBodyRetryingOn500(cmd, i, status, body) ==
    IF body.kind = "unreadable"
    THEN [done |-> TRUE, r |-> CheckResult(3, Msg("could not read content body: %s", 0))]
    ELSE IF status >= 500
    THEN IF i + 1 < cmd.retries + 1
         THEN [done |-> FALSE, r |-> NoResult]
         ELSE [done |-> TRUE,
               r |-> CheckResult(3, Msg("graphite api has internal problems, answered with status code: %d", status))]
    ELSE IF status # 200
    THEN [done |-> TRUE,
          r |-> CheckResult(3, Msg("graphite api answered with status code %d", status))]
    ELSE IF body.kind = "malformed"
    THEN [done |-> TRUE, r |-> CheckResult(3, Msg("could not parse json content: %s", 0))]
    ELSE [done |-> TRUE, r |-> Evaluate(body.data, cmd)]

\* the outcome of one iteration of the request loop on an answer
LoopBody(cmd, i, status, body) ==
    IF body.kind = "unreadable"
    THEN [done |-> TRUE, r |-> CheckResult(3, Msg("could not read content body: %s", 0))]
    ELSE IF status > 500
    THEN IF i + 1 < cmd.retries + 1
         THEN [done |-> FALSE, r |-> NoResult]
         ELSE [done |-> TRUE,
               r |-> CheckResult(3, Msg("graphite api has internal problems, answered with status code: %d", status))]
    ELSE IF status # 200
    THEN [done |-> TRUE,
          r |-> CheckResult(3, Msg("graphite api answered with status code %d", status))]
    ELSE IF body.kind = "malformed"
    THEN [done |-> TRUE, r |-> CheckResult(3, Msg("could not parse json content: %s", 0))]
    ELSE [done |-> TRUE, r |-> Evaluate(body.data, cmd)]

\* the backend answers the request of iteration attempt[w]
HttpAnswer(w) ==
    /\ NoneBusy
    /\ pc[w] = "exec"
    /\ ArgsError(check[w].Command) = ""
    /\ attempt[w] < check[w].Command.retries + 1
    /\ \E status \in Statuses, body \in Bodies :
        LET out == LoopBody(check[w].Command, attempt[w], status, body)
        IN IF out.done
           THEN /\ ExecutorReturns(w, out.r)
                /\ UNCHANGED attempt
           ELSE /\ attempt' = [attempt EXCEPT ![w] = @ + 1]
                /\ UNCHANGED <<raw, returnedAt, result, pc, rowLock, tx, backToOkay>>
    /\ UNCHANGED <<fnVars, cfg, now, active_checks, notifications, check, ctxStart, ret,
                   committed>>

\* ------------------------------------------------------------------------
\* Next after the executor returned: update, insert and commit, which no
\* other transaction can observe apart
\* ------------------------------------------------------------------------
\* a slice that keeps the whole array
SliceAll(states) == states

\* states[1:4]: the first four elements there are
Slice4(states) == SubSeq(states, 1, IF Len(states) < 4 THEN Len(states) ELSE 4)

\* an update that advances next_time from its old value
UpdatedRowFromOldNextTime(row, txnow, code, msg, flag) ==
    [row EXCEPT
        !.next_time = row.next_time + row.intval,
        !.states = <<code>> \o Slice4(row.states),
        !.msg = msg,
        !.acknowledged = IF flag THEN FALSE ELSE @,
        !.state_since = IF Len(row.states) > 0 /\ code = row.states[1] THEN @ ELSE txnow]

\* an update that clears acknowledged in every cycle
UpdatedRowClearingAck(row, txnow, code, msg, flag) ==
    [row EXCEPT
        !.next_time = txnow + row.intval,
        !.states = <<code>> \o Slice4(row.states),
        !.msg = msg,
        !.acknowledged = FALSE,
        !.state_since = IF Len(row.states) > 0 /\ code = row.states[1] THEN @ ELSE txnow]

\* an update that resets state_since in every cycle
UpdatedRowResettingSince(row, txnow, code, msg, flag) ==
    [row EXCEPT
        !.next_time = txnow + row.intval,
        !.states = <<code>> \o Slice4(row.states),
        !.msg = msg,
        !.acknowledged = IF flag THEN FALSE ELSE @,
        !.state_since = txnow]

\* the row after "update active_checks ... where check_id = $1"
UpdatedRow(row, txnow, code, msg, flag) ==
    [row EXCEPT
        !.next_time = txnow + row.intval,
        !.states = <<code>> \o Slice4(row.states),
        !.msg = msg,
        !.acknowledged = IF flag THEN FALSE ELSE @,
        !.state_since = IF Len(row.states) > 0 /\ code = row.states[1] THEN @ ELSE txnow]

\* array_agg(ml.target) over unnest(ac.states) joined with mapping_level
RECURSIVE Targets(_, _)
Targets(states, mapping_id) ==
    IF states = << >> THEN << >>
    ELSE LET ml == { m \in mapping_level :
                        m.mapping_id = mapping_id /\ m.source = Head(states) }
         IN (IF ml = {} THEN << >> ELSE <<(CHOOSE m \in ml : TRUE).target>>)
            \o Targets(Tail(states), mapping_id)

NotifierIds == { cn.notifier_id : cn \in checks_notify }

\* an insert without the condition cn.enabled = true
RECURSIVE NotificationRowsIgnoringEnabled(_, _, _, _, _, _)
NotificationRowsIgnoringEnabled(n, id, row, msg, mappingId, ident) ==
    IF n = 0 THEN << >>
    ELSE NotificationRowsIgnoringEnabled(n - 1, id, row, msg, mappingId, ident)
         \o (IF /\ \E cn \in checks_notify : cn.check_id = id /\ cn.notifier_id = n
                /\ row.acknowledged = FALSE
                /\ Targets(row.states, row.mapping_id) # << >>
             THEN << [check_id |-> id, states |-> Targets(row.states, row.mapping_id),
                      output |-> msg, mapping_id |-> mappingId, notifier_id |-> n,
                      check_host |-> ident] >>
             ELSE << >>)

\* an insert that takes place only when the top of the history has changed
RECURSIVE NotificationRowsOnChange(_, _, _, _, _, _)
NotificationRowsOnChange(n, id, row, msg, mappingId, ident) ==
    IF n = 0 THEN << >>
    ELSE NotificationRowsOnChange(n - 1, id, row, msg, mappingId, ident)
         \o (IF /\ \E cn \in checks_notify :
                     cn.check_id = id /\ cn.notifier_id = n /\ cn.enabled
                /\ row.acknowledged = FALSE
                /\ Targets(row.states, row.mapping_id) # << >>
                /\ (Len(row.states) < 2 \/ row.states[1] # row.states[2])
             THEN << [check_id |-> id, states |-> Targets(row.states, row.mapping_id),
                      output |-> msg, mapping_id |-> mappingId, notifier_id |-> n,
                      check_host |-> ident] >>
             ELSE << >>)

\* the rows of "insert into notifications ... group by cn.notifier_id" for
\* the notifiers up to n, in notifier order; row is the check's row as the
\* transaction sees it
RECURSIVE NotificationRows(_, _, _, _, _, _)
NotificationRows(n, id, row, msg, mappingId, ident) ==
    IF n = 0 THEN << >>
    ELSE NotificationRows(n - 1, id, row, msg, mappingId, ident)
         \o (IF /\ \E cn \in checks_notify :
                     cn.check_id = id /\ cn.notifier_id = n /\ cn.enabled
                /\ row.acknowledged = FALSE
                /\ Targets(row.states, row.mapping_id) # << >>
             THEN << [check_id |-> id, states |-> Targets(row.states, row.mapping_id),
                      output |-> msg, mapping_id |-> mappingId, notifier_id |-> n,
                      check_host |-> ident] >>
             ELSE << >>)

\* the transaction of w after its update statement
AfterUpdate(w) ==
    [tx[w] EXCEPT !.updated = TRUE,
                  !.row = UpdatedRow(active_checks[check[w].id], tx[w].now,
                                     result[w].ExitCode, result[w].Message,
                                     backToOkay[w])]

\* the transaction of w after its update and its insert statement
AfterInsert(w) ==
    [AfterUpdate(w) EXCEPT !.notifs =
        NotificationRows(Cardinality(NotifierIds), check[w].id, AfterUpdate(w).row,
                         result[w].Message, check[w].mappingId, checker.ident)]

\* the update fails
UpdateFail(w) ==
    /\ pc[w] = "persist"
    /\ Returns(w, "could not update check")
    /\ EndTx(w, Rollback(Store, tx[w]))
    /\ UNCHANGED <<fnVars, cfg, now, check, committed>>

\* the update succeeds, the insert fails
InsertFail(w) ==
    /\ pc[w] = "persist"
    /\ Returns(w, "could not create notification")
    /\ EndTx(w, Rollback(Store, AfterUpdate(w)))
    /\ UNCHANGED <<fnVars, cfg, now, check, committed>>

\* update and insert succeed, tx.Commit() succeeds; Next returns nil
CommitOk(w) ==
    /\ pc[w] = "persist"
    /\ Returns(w, "nil")
    /\ committed' = [committed EXCEPT ![w] = TRUE]
    /\ EndTx(w, Commit(Store, AfterInsert(w)))
    /\ UNCHANGED <<fnVars, cfg, now, check>>

\* update and insert succeed, tx.Commit() fails: its error is dropped and
\* Next returns nil
CommitFail(w) ==
    /\ pc[w] = "persist"
    /\ Returns(w, "nil")
    /\ EndTx(w, Rollback(Store, AfterInsert(w)))
    /\ UNCHANGED <<fnVars, cfg, now, check, committed>>

\* ------------------------------------------------------------------------
\* The daemon loop of main and the clock
\* ------------------------------------------------------------------------
\* Next returned: the worker sleeps on an error and calls Next again
Loop(w) ==
    /\ pc[w] = "returned"
    /\ pc' = [pc EXCEPT ![w] = "idle"]
    /\ check' = [check EXCEPT ![w] = NoCheckStruct]
    /\ ret' = [ret EXCEPT ![w] = "none"]
    /\ committed' = [committed EXCEPT ![w] = FALSE]
    /\ UNCHANGED <<fnVars, cfg, now, active_checks, notifications, rowLock, tx, ctxStart,
                   attempt, raw, returnedAt, result, backToOkay>>

\* time passes; a request bound to its context does not outlast the deadline
Tick ==
    /\ NoneBusy
    /\ now < MaxTime
    /\ ClientGetBoundByContext =>
         \A w \in Workers : pc[w] = "exec" => now < ctxStart[w] + checker.timeout
    /\ now' = now + 1
    /\ UNCHANGED <<fnVars, cfg, active_checks, notifications, rowLock, pc, check, tx,
                   ctxStart, attempt, raw, returnedAt, result, backToOkay, ret,
                   committed>>

Next ==
    \/ Tick
    \/ \E w \in Workers :
        \/ BeginFail(w)
        \/ SelectFail(w)
        \/ SelectNoRows(w)
        \/ SelectClaim(w)
        \/ ArgsInvalid(w)
        \/ HttpTransportError(w)
        \/ HttpAnswer(w)
        \/ UpdateFail(w)
        \/ InsertFail(w)
        \/ CommitOk(w)
        \/ CommitFail(w)
        \/ Loop(w)

Spec == Init /\ [][Next]_vars

\* ------------------------------------------------------------------------
\* The threshold evaluation of runCheck taken alone: the scan over the
\* datapoints of a decoded 200 response, one datapoint a step
\* ------------------------------------------------------------------------
\* the longest sequence of datapoints of a response
MaxPoints == 3

PointValues == {1, 4, 5, 8, 9}

Points == {NilPt} \cup { Pt(v) : v \in PointValues }

PointSeqs == UNION { [1..n -> Points] : n \in 0..MaxPoints }

\* responses without a series, with one series and with two series
ScanPayloads ==
    { << >> }
    \cup { <<s>> : s \in PointSeqs }
    \cup UNION { { <<SubSeq(s, 1, k), SubSeq(s, k + 1, Len(s))>> : k \in 0..Len(s) } :
                   s \in PointSeqs }

\* warning and error levels: ascending, descending, equal
Levels ==
    { [warn |-> 4, error |-> 8], [warn |-> 8, error |-> 4], [warn |-> 4, error |-> 4] }

\* the engine does not run while a call is taken alone
EngineParked ==
    /\ InitEngine
    /\ cfg = [CheckerID |-> 0, Timeout |-> Timeout, HostIdentifier |-> "host",
              Logger |-> "set"]
    /\ active_checks = [c \in CheckIds |-> InitRows[c]]

\* json.Unmarshal has succeeded, result.ExitCode is 0 and curVal is nil
InitEval ==
    /\ EngineParked
    /\ scan \in { [pc |-> "scan", payload |-> p, warn |-> l.warn, error |-> l.error,
                   message |-> "current value: %f", rest |-> Flatten(p),
                   acc |-> ScanStart, result |-> NoResult] :
                  p \in ScanPayloads, l \in Levels }
    /\ req = NoCall /\ child = NoCall /\ enc = NoCall

\* one iteration of the loops over the targets and their datapoints
ScanPoint ==
    /\ scan.pc = "scan"
    /\ scan.rest # << >>
    /\ scan' = [scan EXCEPT !.rest = Tail(@),
                            !.acc = EvalPoint(@, Head(scan.rest), scan.warn, scan.error)]
    /\ UNCHANGED <<engineVars, req, child, enc>>

\* the loops are over: runCheck returns
ScanEnd ==
    /\ scan.pc = "scan"
    /\ scan.rest = << >>
    /\ scan' = [scan EXCEPT !.pc = "done", !.result = Conclude(scan.acc, scan.message)]
    /\ UNCHANGED <<engineVars, req, child, enc>>

NextEval == ScanPoint \/ ScanEnd

SpecEval == InitEval /\ [][NextEval]_vars

\* ------------------------------------------------------------------------
\* runCheck taken alone, from the command tokens to its result: the flag
\* set, the checks of the flags, the request loop
\* ------------------------------------------------------------------------
\* the largest retry count of a command
MaxRetries == 2

FlagNames == {"addr", "interval", "warn", "error", "key", "retries", "message"}

\* the defaults the flags are defined with
FlagDefaults ==
    [addr |-> "", interval |-> "60s", warn |-> 0, error |-> 0, key |-> "",
     retries |-> 0, message |-> "current value: %f"]

\* the values a token may give a flag
FlagValues ==
    [addr : {"", "http://graphite", "://graphite"}, interval : {"", "60s", "5min"},
     warn : {0, 4}, error : {0, 8}, key : {"", "load"}, retries : 0..MaxRetries,
     message : {"current value: %f", "load is %f"}]

\* command tokens: the flags given, their values, and whether a token is
\* one that fs.Parse rejects (an undefined flag, a number that does not parse)
TokenSets ==
    { t \in [given : SUBSET FlagNames, value : FlagValues, bad : BOOLEAN] :
        \A f \in FlagNames \ t.given : t.value[f] = FlagDefaults[f] }

\* fs.Parse: a flag that is given takes its value, the others keep the default
ParseFlags(tokens) ==
    [f \in FlagNames |-> IF f \in tokens.given THEN tokens.value[f] ELSE FlagDefaults[f]]

\* url.Parse fails on an address with an empty scheme before "://"
UrlParseFails(addr) == addr = "://graphite"

\* statuses and bodies the backend answers with
AnswerStatuses == {200, 404, 500, 503}

AnswerBodies ==
    { [kind |-> "json", data |-> << <<Pt(5)>> >>],
      [kind |-> "malformed", data |-> << >>],
      [kind |-> "unreadable", data |-> << >>] }

InitHttp ==
    /\ EngineParked
    /\ req \in { [pc |-> "args", tokens |-> t, flags |-> FlagDefaults, i |-> 0,
                  sent |-> 0, answers |-> << >>, failed |-> FALSE,
                  result |-> CheckResult(3, NoMsg)] : t \in TokenSets }
    /\ scan = NoCall /\ child = NoCall /\ enc = NoCall

\* fs.Parse fails: code 3
RunCheckParseFails ==
    /\ req.pc = "args"
    /\ req.tokens.bad
    /\ req' = [req EXCEPT !.pc = "done",
                          !.result = CheckResult(3, Msg("could not parse arguments: %s", 0))]
    /\ UNCHANGED <<engineVars, scan, child, enc>>

\* the flags are parsed and checked, the url is built
RunCheckArgs ==
    /\ req.pc = "args"
    /\ ~req.tokens.bad
    /\ LET flags == ParseFlags(req.tokens)
       IN IF ArgsError(flags) # ""
          THEN req' = [req EXCEPT !.pc = "done", !.flags = flags,
                                  !.result = CheckResult(3, Msg(ArgsError(flags), 0))]
          ELSE IF UrlParseFails(flags.addr)
          THEN req' = [req EXCEPT !.pc = "done", !.flags = flags,
                                  !.result = CheckResult(3, Msg("could not parse addr '%s': %s", 0))]
          ELSE req' = [req EXCEPT !.pc = "loop", !.flags = flags]
    /\ UNCHANGED <<engineVars, scan, child, enc>>

\* r.client.Get fails in iteration i
RunCheckGetFails ==
    /\ req.pc = "loop"
    /\ req.i < req.flags.retries + 1
    /\ req' = [req EXCEPT !.pc = "done", !.sent = @ + 1, !.failed = TRUE,
                          !.result = CheckResult(3, Msg("could not get result: %s", 0))]
    /\ UNCHANGED <<engineVars, scan, child, enc>>

\* the backend answers the request of iteration i
RunCheckAnswer ==
    /\ req.pc = "loop"
    /\ req.i < req.flags.retries + 1
    /\ \E status \in AnswerStatuses, body \in AnswerBodies :
        LET out == LoopBody(req.flags, req.i, status, body)
            answered == [req EXCEPT !.sent = @ + 1,
                                    !.answers = Append(@, [status |-> status, body |-> body.kind])]
        IN IF out.done
           THEN req' = [answered EXCEPT !.pc = "done", !.result = out.r]
           ELSE req' = [answered EXCEPT !.i = @ + 1]
    /\ UNCHANGED <<engineVars, scan, child, enc>>

NextHttp == RunCheckParseFails \/ RunCheckArgs \/ RunCheckGetFails \/ RunCheckAnswer

SpecHttp == InitHttp /\ [][NextHttp]_vars

\* ------------------------------------------------------------------------
\* CheckExec taken alone: the result for each way the child may end
\* ------------------------------------------------------------------------
\* the largest exit status of a child
MaxExitStatus == 15

Signals == {9, 15}

Outputs == {"", "OK", "WARNING - load 5", "CRITICAL - load 9", "killed", "no such file"}

\* how cmd.Run may end: the child was not started (ProcessState is nil), it
\* exited with a status, it was killed by a signal, or the platform's
\* ProcessState.Sys() is not a syscall.WaitStatus
RunOutcomes ==
    { [kind |-> "notstarted", status |-> 0, signal |-> 0, output |-> ""] }
    \cup { [kind |-> "exited", status |-> n, signal |-> 0, output |-> o] :
             n \in 0..MaxExitStatus, o \in Outputs }
    \cup { [kind |-> "signaled", status |-> 0, signal |-> g, output |-> o] :
             g \in Signals, o \in Outputs }
    \cup { [kind |-> "nowaitstatus", status |-> 1, signal |-> 0, output |-> o] :
             o \in Outputs }

\* syscall.WaitStatus.ExitStatus(): -1 unless the child has exited
ExitStatus(outcome) == IF outcome.kind = "exited" THEN outcome.status ELSE -1

\* cmd.Run returns nil only for a child that exited with status 0
RunError(outcome) == ~(outcome.kind = "exited" /\ outcome.status = 0)

CheckExec(outcome) ==
    IF RunError(outcome) /\ outcome.kind = "notstarted"
    THEN CheckResult(3, Msg("unknown error when running command: %w", 0))
    ELSE IF RunError(outcome) /\ outcome.kind = "nowaitstatus"
    THEN CheckResult(2, Msg(outcome.output, 0))
    ELSE IF RunError(outcome)
    THEN CheckResult(ExitStatus(outcome), Msg(outcome.output, 0))
    ELSE CheckResult(0, Msg(outcome.output, 0))

InitExec ==
    /\ EngineParked
    /\ child \in { [pc |-> "run", outcome |-> o, result |-> NoResult] : o \in RunOutcomes }
    /\ scan = NoCall /\ req = NoCall /\ enc = NoCall

\* the child has ended and CheckExec returns
CheckExecReturns ==
    /\ child.pc = "run"
    /\ child' = [child EXCEPT !.pc = "done", !.result = CheckExec(child.outcome)]
    /\ UNCHANGED <<engineVars, scan, req, enc>>

NextExec == CheckExecReturns

SpecExec == InitExec /\ [][NextExec]_vars

\* ------------------------------------------------------------------------
\* States taken alone: Value writes the text of an array, Scan reads it.
\* A text is a sequence of characters.
\* ------------------------------------------------------------------------
\* the longest history that is written and read
MaxStates == 4

StateCodes == {0, 2, 12, -1}

Histories == UNION { [1..n -> StateCodes] : n \in 0..MaxStates }

Digits == <<"0", "1", "2", "3", "4", "5", "6", "7", "8", "9">>

\* fmt.Fprintf(&result, "%d", state)
RECURSIVE FormatNat(_)
FormatNat(n) ==
    IF n < 10 THEN <<Digits[n + 1]>>
    ELSE FormatNat(n \div 10) \o <<Digits[(n % 10) + 1]>>

FormatInt(n) == IF n < 0 THEN <<"-">> \o FormatNat(0 - n) ELSE FormatNat(n)

\* the elements of s from i on, a comma after each but the last
RECURSIVE WriteStates(_, _)
WriteStates(s, i) ==
    IF i > Len(s) THEN << >>
    ELSE FormatInt(s[i]) \o (IF i < Len(s) THEN <<",">> ELSE << >>) \o WriteStates(s, i + 1)

\* States.Value
Value(s) ==
    IF Len(s) = 0 THEN <<"{", "}">>
    ELSE <<"{">> \o WriteStates(s, 1) \o <<"}">>

RECURSIVE TrimLeft(_, _)
TrimLeft(text, cutset) ==
    IF text # << >> /\ Head(text) \in cutset THEN TrimLeft(Tail(text), cutset) ELSE text

RECURSIVE TrimRight(_, _)
TrimRight(text, cutset) ==
    IF text # << >> /\ text[Len(text)] \in cutset
    THEN TrimRight(SubSeq(text, 1, Len(text) - 1), cutset) ELSE text

\* bytes.Trim
Trim(text, cutset) == TrimRight(TrimLeft(text, cutset), cutset)

\* bytes.Split: the pieces between the separators, one more than there are
\* separators; cur is the piece being read
RECURSIVE SplitFrom(_, _, _)
SplitFrom(text, sep, cur) ==
    IF text = << >> THEN <<cur>>
    ELSE IF Head(text) = sep THEN <<cur>> \o SplitFrom(Tail(text), sep, << >>)
    ELSE SplitFrom(Tail(text), sep, Append(cur, Head(text)))

Split(text, sep) == SplitFrom(text, sep, << >>)

IsDigit(c) == \E d \in DOMAIN Digits : Digits[d] = c

DigitValue(c) == (CHOOSE d \in DOMAIN Digits : Digits[d] = c) - 1

RECURSIVE ParseNat(_, _)
ParseNat(text, n) ==
    IF text = << >> THEN n ELSE ParseNat(Tail(text), 10 * n + DigitValue(Head(text)))

\* strconv.Atoi: an optional sign and at least one digit, nothing else
Atoi(text) ==
    LET signed == text # << >> /\ Head(text) \in {"-", "+"}
        digits == IF signed THEN Tail(text) ELSE text
    IN IF digits = << >> \/ \E i \in DOMAIN digits : ~IsDigit(digits[i])
       THEN [err |-> TRUE, v |-> 0]
       ELSE [err |-> FALSE,
             v |-> IF signed /\ Head(text) = "-" THEN 0 - ParseNat(digits, 0)
                   ELSE ParseNat(digits, 0)]

\* States.Scan of a []byte into dst: dst is assigned only without an error
Scan(dst, src) ==
    LET states == Split(Trim(src, {"{", "}"}), ",")
        parsed == [i \in DOMAIN states |-> Atoi(states[i])]
    IN IF \E i \in DOMAIN states : parsed[i].err
       THEN [err |-> TRUE, s |-> dst]
       ELSE [err |-> FALSE, s |-> [i \in DOMAIN states |-> parsed[i].v]]

\* the most calls of Add before a history is written
MaxAdds == 2

\* States.Add: the new state before the first statePos old ones
Add(s, state) ==
    LET statePos == IF Len(s) < 6 THEN Len(s) ELSE 5
    IN <<state>> \o SubSeq(s, 1, statePos)

InitStates ==
    /\ EngineParked
    /\ enc \in { [pc |-> "value", s |-> h, adds |-> 0, text |-> << >>, err |-> FALSE,
                  out |-> << >>] : h \in Histories }
    /\ scan = NoCall /\ req = NoCall /\ child = NoCall

\* s.Add(state) is called
StatesAdd ==
    /\ enc.pc = "value"
    /\ enc.adds < MaxAdds
    /\ \E state \in StateCodes :
        enc' = [enc EXCEPT !.s = Add(@, state), !.adds = @ + 1]
    /\ UNCHANGED <<engineVars, scan, req, child>>

\* s.Value() is called
StatesValue ==
    /\ enc.pc = "value"
    /\ enc' = [enc EXCEPT !.pc = "scan", !.text = Value(enc.s)]
    /\ UNCHANGED <<engineVars, scan, req, child>>

\* Scan is called on a new States with the bytes of the text
StatesScan ==
    /\ enc.pc = "scan"
    /\ enc' = [enc EXCEPT !.pc = "done", !.err = Scan(<< >>, enc.text).err,
                          !.out = Scan(<< >>, enc.text).s]
    /\ UNCHANGED <<engineVars, scan, req, child>>

NextStates == StatesAdd \/ StatesValue \/ StatesScan

SpecStates == InitStates /\ [][NextStates]_vars

\* ------------------------------------------------------------------------
\* The daemon under fair scheduling, with executors that return and a store
\* that does not fail
\* ------------------------------------------------------------------------
\* the steps of worker w when no statement of its transaction fails
WorkerStep(w) ==
    \/ SelectNoRows(w)
    \/ SelectClaim(w)
    \/ ArgsInvalid(w)
    \/ HttpTransportError(w)
    \/ HttpAnswer(w)
    \/ CommitOk(w)
    \/ Loop(w)

NextLive == Tick \/ \E w \in Workers : WorkerStep(w)

\* Every goroutine of main keeps running its loop, and time passes.  The
\* guard NoneBusy only orders the steps of the workers, it does not stop a
\* goroutine: a step that is possible again and again is taken.
SpecLive ==
    /\ Init
    /\ [][NextLive]_vars
    /\ SF_vars(Tick)
    /\ \A w \in Workers : SF_vars(WorkerStep(w))

TypeOK ==
    /\ now \in 0..MaxTime
    /\ pc \in [Workers -> {"idle", "exec", "persist", "returned", "crashed"}]
    /\ \A c \in CheckIds : rowLock[c] \subseteq Workers

\* ------------------------------------------------------------------------
\* Properties
\* ------------------------------------------------------------------------
\* worker w holds check c claimed: selected for update and not yet returned
Claims(w, c) == pc[w] \in {"exec", "persist"} /\ check[w].id = c

\* the step in which w's cycle is committed
Commits(w) == pc[w] = "persist" /\ pc'[w] = "returned" /\ committed'[w]

\* C1: at every instant each check is claimed by at most one worker; two
\* workers never execute the same check at overlapping times.
C1_AtMostOneWorkerPerCheck ==
    \A c \in CheckIds : Cardinality({ w \in Workers : Claims(w, c) }) <= 1

\* two workers hold claims at the same time
C1_Witness ==
    \E v, w \in Workers : v # w /\ pc[v] = "exec" /\ pc[w] = "exec"

\* C2: Next only ever claims rows whose checker_id equals the CheckerID the
\* instance was configured with.
C2_ClaimsOnlyConfiguredCheckerID ==
    \A w \in Workers : \A c \in CheckIds :
        Claims(w, c) => active_checks[c].checker_id = cfg.CheckerID

\* a row is due, enabled, owned by the configured CheckerID and not locked
Selectable(c) ==
    /\ active_checks[c].next_time < now
    /\ active_checks[c].enabled
    /\ active_checks[c].checker_id = cfg.CheckerID
    /\ rowLock[c] = {}

\* C3: Next returns ErrNoCheck exactly when at its select no row is due,
\* enabled, owned by this checker and unlocked; when the select succeeds
\* otherwise it claims one such row.
C3_ErrNoCheckExactly ==
    [][\A w \in Workers :
          /\ (pc[w] = "idle" /\ ret'[w] = "ErrNoCheck")
                => ~ \E c \in CheckIds : Selectable(c)
          /\ (pc[w] = "idle" /\ pc'[w] = "exec")
                => Selectable(check'[w].id)]_vars

\* the result Next has to persist for what the executor returned at
\* returnedAt under a context created at ctxStart
Expected(w) ==
    IF returnedAt[w] >= ctxStart[w] + cfg.Timeout
    THEN CheckResult(2, Msg("check took longer than %s", cfg.Timeout))
    ELSE raw[w]

\* C4: when the deadline has been exceeded as the executor returns, the
\* cycle persists code 2 with the message "check took longer than <timeout>",
\* never code 3 or the executor's code; otherwise it persists the
\* executor's result unchanged.
C4_TimeoutPersistedAsCritical ==
    [][\A w \in Workers :
          /\ pc[w] = "persist" => result[w] = Expected(w)
          /\ Commits(w) =>
                /\ active_checks'[check[w].id].states[1] = Expected(w).ExitCode
                /\ active_checks'[check[w].id].msg = Expected(w).Message]_vars

\* a cycle whose executor returned code 3 past the deadline is about to
\* persist code 2
C4_Witness ==
    \E w \in Workers :
        /\ pc[w] = "persist"
        /\ returnedAt[w] >= ctxStart[w] + cfg.Timeout
        /\ raw[w].ExitCode = 3
        /\ result[w].ExitCode = 2

\* C5: the executor returns no later than the deadline it is given: no
\* request of runCheck is still in progress after the deadline.
C5_ExecutorReturnsByDeadline ==
    \A w \in Workers : pc[w] = "exec" => now <= ctxStart[w] + cfg.Timeout

ErrorReturns ==
    { "could not start database transaction", "could not get next check",
      "could not update check", "could not create notification" }

\* C6: when a step of a cycle fails, nothing of the cycle is committed: the
\* rows and the notifications are unchanged, the row lock is released and
\* the claimed check is still due and enabled.
C6_FailedCycleCommitsNothing ==
    [][\A w \in Workers :
          (pc[w] # "returned" /\ pc'[w] = "returned" /\ ret'[w] \in ErrorReturns)
            => /\ active_checks' = active_checks
               /\ notifications' = notifications
               /\ \A c \in CheckIds : w \notin rowLock'[c]
               /\ check[w].id # 0 =>
                    /\ rowLock'[check[w].id] = {}
                    /\ active_checks'[check[w].id].next_time < now'
                    /\ active_checks'[check[w].id].enabled]_vars

\* a cycle whose update succeeded and whose insert failed has returned and
\* its check is unlocked and still due
C6_Witness ==
    \E w \in Workers :
        /\ pc[w] = "returned"
        /\ ret[w] = "could not create notification"
        /\ check[w].id # 0
        /\ rowLock[check[w].id] = {}
        /\ active_checks[check[w].id].states = check[w].ExitCodes
        /\ active_checks[check[w].id].next_time < now

\* C7: next_time strictly advances in every committed cycle, whatever the
\* result code.
C7_NextTimeAdvances ==
    [][\A w \in Workers :
          Commits(w) => active_checks'[check[w].id].next_time
                            > active_checks[check[w].id].next_time]_vars

\* a cycle of a check with interval 0 that ended with code 3 is committed
C7_Witness ==
    \E w \in Workers :
        /\ pc[w] = "returned" /\ committed[w]
        /\ active_checks[check[w].id].intval = 0
        /\ active_checks[check[w].id].states[1] = 3

\* C8: the recovery flag is true iff (history empty and new code 0) or
\* (previous top > 0 and new code 0).
C8_RecoveryFlag ==
    \A w \in Workers :
        pc[w] = "persist" =>
            (backToOkay[w] <=>
                \/ (check[w].ExitCodes = << >> /\ result[w].ExitCode = 0)
                \/ (/\ check[w].ExitCodes # << >>
                    /\ check[w].ExitCodes[1] > 0
                    /\ result[w].ExitCode = 0))

\* the flag is false for previous top 0 and new code 0
C8_Witness ==
    \E w \in Workers :
        /\ pc[w] = "persist"
        /\ check[w].ExitCodes # << >>
        /\ check[w].ExitCodes[1] = 0
        /\ result[w].ExitCode = 0
        /\ ~backToOkay[w]

\* C9 as stated: a cycle clears acknowledged exactly when the previous top
\* is not 0 and the new code is 0, and leaves it as it was in every other
\* cycle.
C9_AckClearedOnlyFromNonOk ==
    [][\A w \in Workers :
          Commits(w) =>
            LET old == active_checks[check[w].id]
            IN active_checks'[check[w].id].acknowledged =
                 IF old.states # << >> /\ old.states[1] # 0 /\ result[w].ExitCode = 0
                 THEN FALSE ELSE old.acknowledged]_vars

\* C9 amended: a cycle clears acknowledged exactly when the new code is 0
\* and the previous top is > 0 or the history is empty; every other cycle
\* leaves it as it was, and no cycle sets it to true.
C9_AckClearedOnRecoveryFlag ==
    [][\A w \in Workers :
          Commits(w) =>
            LET old == active_checks[check[w].id]
            IN active_checks'[check[w].id].acknowledged =
                 IF /\ result[w].ExitCode = 0
                    /\ (old.states = << >> \/ old.states[1] > 0)
                 THEN FALSE ELSE old.acknowledged]_vars

\* the first cycle of an acknowledged check with an empty history ended
\* with code 0 and is committed: acknowledged is cleared
C9_Witness ==
    \E w \in Workers :
        /\ pc[w] = "returned" /\ committed[w]
        /\ check[w].ExitCodes = << >>
        /\ active_checks[check[w].id].states = <<0>>
        /\ ~active_checks[check[w].id].acknowledged

\* C10: a cycle resets state_since to now() only when the new code differs
\* from the previous top of the history or the history was empty; when the
\* new code equals the previous top, state_since is unchanged.
C10_StateSince ==
    [][\A w \in Workers :
          Commits(w) =>
            LET old == active_checks[check[w].id]
            IN active_checks'[check[w].id].state_since =
                 IF old.states # << >> /\ old.states[1] = result[w].ExitCode
                 THEN old.state_since ELSE tx[w].now]_vars

\* a committed cycle whose code equals the previous top left state_since
\* before the time of the cycle
C10_Witness ==
    \E w \in Workers :
        /\ pc[w] = "returned" /\ committed[w]
        /\ check[w].ExitCodes # << >>
        /\ active_checks[check[w].id].states[1] = check[w].ExitCodes[1]
        /\ Len(active_checks[check[w].id].states) = Len(check[w].ExitCodes) + 1
        /\ active_checks[check[w].id].state_since < 0

\* the notification rows a step appends
Added == SubSeq(notifications', Len(notifications) + 1, Len(notifications'))

\* the enabled notifiers attached to check c
EnabledNotifiers(c) ==
    { cn.notifier_id : cn \in { x \in checks_notify : x.check_id = c /\ x.enabled } }

\* C11: after every committed cycle the persisted history has at most 5
\* entries, the newest code first followed by the previous entries in their
\* order; only the oldest entry is dropped, and only when the history was
\* already full.
C11_HistoryBounded ==
    [][\A w \in Workers :
          Commits(w) =>
            LET old == active_checks[check[w].id].states
                new == active_checks'[check[w].id].states
            IN /\ Len(new) <= 5
               /\ new = <<result[w].ExitCode>>
                          \o (IF Len(old) = 5 THEN SubSeq(old, 1, 4) ELSE old)]_vars

\* a committed cycle on a full history: the newest code is first, the four
\* newest old entries follow, the history is still full
C11_Witness ==
    \E w \in Workers :
        /\ pc[w] = "returned" /\ committed[w]
        /\ Len(check[w].ExitCodes) = 5
        /\ Len(active_checks[check[w].id].states) = 5
        /\ SubSeq(active_checks[check[w].id].states, 2, 5) = SubSeq(check[w].ExitCodes, 1, 4)

\* C12: a committed cycle of a check that is acknowledged when the insert
\* runs (after the cycle's update) appends no notification row; a committed
\* cycle of a check that is then unacknowledged appends exactly one row for
\* each enabled notifier attached to the check and no row for any other
\* notifier or check.
C12_NotificationsPerEnabledNotifier ==
    [][\A w \in Workers :
          Commits(w) =>
            LET c == check[w].id
            IN /\ notifications' = notifications \o Added
               /\ IF active_checks'[c].acknowledged
                  THEN Added = << >>
                  ELSE /\ \A i \in DOMAIN Added :
                            /\ Added[i].check_id = c
                            /\ Added[i].notifier_id \in EnabledNotifiers(c)
                       /\ \A n \in EnabledNotifiers(c) :
                            Cardinality({ i \in DOMAIN Added : Added[i].notifier_id = n }) = 1]_vars

\* one check has run, stayed acknowledged and has no notification row; the
\* other has run unacknowledged and has exactly one row
C12_Witness ==
    \E a, b \in CheckIds :
        /\ a # b
        /\ active_checks[b].acknowledged /\ active_checks[b].msg # NoMsg
        /\ ~ \E i \in DOMAIN notifications : notifications[i].check_id = b
        /\ ~active_checks[a].acknowledged /\ active_checks[a].msg # NoMsg
        /\ Cardinality({ i \in DOMAIN notifications : notifications[i].check_id = a }) = 1

\* C13 as stated: a cycle appends notification rows only when the new code
\* differs from the previous top of the history.
C13_NotifiesOnlyOnChange ==
    [][\A w \in Workers :
          (Commits(w) /\ notifications' # notifications)
            => LET old == active_checks[check[w].id].states
               IN old = << >> \/ old[1] # result[w].ExitCode]_vars

\* C13 amended: a committed cycle appends notification rows exactly when the
\* check is unacknowledged after the cycle's update and has an enabled
\* notifier, whether or not the new code differs from the previous top; each
\* row carries the updated history mapped through the check's severity
\* mapping and the message of the result.
C13_NotifiesEveryUnacknowledgedCycle ==
    [][\A w \in Workers :
          Commits(w) =>
            LET c == check[w].id
                new == active_checks'[c]
            IN /\ (Added # << >>) <=> (~new.acknowledged /\ EnabledNotifiers(c) # {})
               /\ \A i \in DOMAIN Added :
                    /\ Added[i].states = Targets(new.states, new.mapping_id)
                    /\ Added[i].output = result[w].Message]_vars

\* a committed cycle whose code equals the previous top of the history has
\* appended a notification row carrying the updated history
C13_Witness ==
    \E w \in Workers :
        /\ pc[w] = "returned" /\ committed[w]
        /\ check[w].ExitCodes # << >>
        /\ active_checks[check[w].id].states[1] = check[w].ExitCodes[1]
        /\ Len(active_checks[check[w].id].states) > 1
        /\ active_checks[check[w].id].states[2] = check[w].ExitCodes[1]
        /\ notifications # << >>
        /\ notifications[Len(notifications)].check_id = check[w].id
        /\ notifications[Len(notifications)].states =
              Targets(active_checks[check[w].id].states, active_checks[check[w].id].mapping_id)

\* the non-absent values of a response, in the order of the scan
RECURSIVE ValuesOf(_)
ValuesOf(points) ==
    IF points = << >> THEN << >>
    ELSE (IF Head(points).nil THEN << >> ELSE <<Head(points).v>>) \o ValuesOf(Tail(points))

\* the reported extreme: the minimum when error < warn, else the maximum
Extreme(values, warn, err) ==
    CHOOSE m \in { values[i] : i \in DOMAIN values } :
        \A i \in DOMAIN values : IF err < warn THEN m <= values[i] ELSE m >= values[i]

\* the severity of a value under the levels
Severity(m, warn, err) ==
    IF err < warn
    THEN IF m <= err THEN 2 ELSE IF m <= warn THEN 1 ELSE 0
    ELSE IF m >= err THEN 2 ELSE IF m >= warn THEN 1 ELSE 0

\* C14: for every sequence of non-absent points the code of the evaluation
\* is the severity of the extreme value: of the maximum when error >= warn,
\* of the minimum when error < warn.
C14_CodeIsSeverityOfExtreme ==
    (/\ scan.pc = "done"
     /\ Flatten(scan.payload) # << >>
     /\ \A i \in DOMAIN Flatten(scan.payload) : ~Flatten(scan.payload)[i].nil)
        => scan.result.ExitCode =
             Severity(Extreme(ValuesOf(Flatten(scan.payload)), scan.warn, scan.error),
                      scan.warn, scan.error)

\* C15: once the code has become 2 during an evaluation, it is 2 after
\* every later point and in the result.
C15_CriticalIsSticky ==
    [][(scan.pc = "scan" /\ scan.acc.code = 2)
          => IF scan'.pc = "scan" THEN scan'.acc.code = 2
             ELSE scan'.result.ExitCode = 2]_vars

\* an evaluation has ended with code 2 after a point of error level was
\* followed by a point of warning level only
C15_Witness ==
    /\ scan.pc = "done"
    /\ scan.result.ExitCode = 2
    /\ LET v == ValuesOf(Flatten(scan.payload))
       IN \E i, j \in DOMAIN v :
            /\ i < j
            /\ Severity(v[i], scan.warn, scan.error) = 2
            /\ Severity(v[j], scan.warn, scan.error) = 1

\* C18: a response without any non-absent value gives code 2 and the
\* message that no values were received; a response with a non-absent value
\* gives the template with the extreme value as its message.
C18_NoValuesIsCritical ==
    scan.pc = "done" =>
        IF ValuesOf(Flatten(scan.payload)) = << >>
        THEN scan.result =
               CheckResult(2, Msg("No values received for query! Is the host down?", 0))
        ELSE scan.result.Message =
               Msg(scan.message \o "\n",
                   Extreme(ValuesOf(Flatten(scan.payload)), scan.warn, scan.error))

\* an evaluation of a response of two series, one empty and one of null
\* points only, has ended with code 2
C18_Witness ==
    /\ scan.pc = "done"
    /\ Len(scan.payload) = 2
    /\ scan.payload[1] = << >>
    /\ scan.payload[2] # << >>
    /\ ValuesOf(Flatten(scan.payload)) = << >>
    /\ scan.result.ExitCode = 2

\* an attempt that ended in a failure of the transport: the request failed,
\* or the body of the answer could not be read
Answered(a) == a.body # "unreadable"

\* C16: a further request is issued only after every earlier attempt was
\* answered with a status > 500, and at most retries + 1 requests are
\* issued; a transport failure or an answer with a status other than 200
\* and <= 500 ends the check at once with code 3; when all retries + 1
\* attempts are answered with a status > 500 the result is code 3 with the
\* message of internal problems.
C16_RetriesOnlyAbove500 ==
    req.pc \in {"loop", "done"} =>
        LET a == req.answers
            r == req.flags.retries
            last == a[Len(a)]
        IN /\ req.sent <= r + 1
           /\ \A k \in 1..(req.sent - 1) : a[k].status > 500 /\ Answered(a[k]) /\ k <= r
           /\ req.pc = "loop" =>
                /\ req.sent = Len(a)
                /\ \A k \in DOMAIN a : a[k].status > 500 /\ Answered(a[k])
           /\ (req.pc = "done" /\ req.sent > 0) =>
                /\ (req.failed \/ ~Answered(last)) => req.result.ExitCode = 3
                /\ (~req.failed /\ last.status # 200 /\ last.status <= 500)
                      => req.result.ExitCode = 3
                /\ (~req.failed /\ Answered(last) /\ last.status > 500)
                      => /\ req.sent = r + 1
                         /\ req.result =
                              CheckResult(3, Msg("graphite api has internal problems, answered with status code: %d",
                                                 last.status))

\* with retries = 1 the backend has answered 503 twice: code 3, internal
\* problems
C16_Witness ==
    /\ req.pc = "done"
    /\ req.flags.retries = 1
    /\ req.sent = 2
    /\ req.answers = << [status |-> 503, body |-> "json"], [status |-> 503, body |-> "json"] >>
    /\ req.result.ExitCode = 3

\* C17 as stated: when any of the seven inputs is missing from the command
\* tokens, runCheck returns code 3 without a request.
C17_AllInputsRequired ==
    (req.pc \in {"loop", "done"} /\ req.tokens.given # FlagNames)
        => /\ req.pc = "done"
           /\ req.result.ExitCode = 3
           /\ req.sent = 0

\* C17 amended: when the address or the key is missing or empty, or the
\* interval is given empty, runCheck returns code 3 without a request; a
\* missing interval, warning level, error level, message template or retry
\* count takes its default (60s, 0, 0, "current value: %f", 0), and with an
\* address that parses the check goes on to the request loop.
C17_AddrAndKeyRequired ==
    (req.pc \in {"loop", "done"}) =>
        LET t == req.tokens
            refused == \/ "addr" \notin t.given \/ t.value.addr = ""
                       \/ "key" \notin t.given \/ t.value.key = ""
                       \/ ("interval" \in t.given /\ t.value.interval = "")
        IN /\ refused => (req.pc = "done" /\ req.result.ExitCode = 3 /\ req.sent = 0)
           /\ (~refused /\ ~t.bad) =>
                /\ "interval" \notin t.given => req.flags.interval = "60s"
                /\ "warn" \notin t.given => req.flags.warn = 0
                /\ "error" \notin t.given => req.flags.error = 0
                /\ "message" \notin t.given => req.flags.message = "current value: %f"
                /\ "retries" \notin t.given => req.flags.retries = 0
                /\ t.value.addr = "http://graphite" => (req.pc = "loop" \/ req.sent > 0)

\* a command with every token but the key has been refused without a request
C17_Witness ==
    /\ req.pc = "done"
    /\ req.tokens.given = FlagNames \ {"key"}
    /\ ~req.tokens.bad
    /\ req.tokens.value.addr = "http://graphite"
    /\ req.result = CheckResult(3, Msg("no key given", 0))
    /\ req.sent = 0

\* C19: CheckExec gives a child that exited its exit status as code and its
\* output as message, and gives a child that could not be started or was
\* killed by a signal code 3 and a diagnostic message.
C19_AbnormalEndIsUnknown ==
    child.pc = "done" =>
        /\ child.outcome.kind = "exited"
              => child.result = CheckResult(child.outcome.status, Msg(child.outcome.output, 0))
        /\ child.outcome.kind \in {"notstarted", "signaled"}
              => /\ child.result.ExitCode = 3
                 /\ child.result.Message # Msg(child.outcome.output, 0)

\* C20: for every history s, Scan of the bytes of Value(s) succeeds and
\* gives s; the empty history is written as "{}".
C20_ValueScanRoundTrip ==
    /\ (enc.pc \in {"scan", "done"} /\ enc.s = << >>) => enc.text = <<"{", "}">>
    /\ enc.pc = "done" => (~enc.err /\ enc.out = enc.s)

\* C21: a call of Add puts the new code first, keeps the old entries in
\* their order, drops only the oldest ones, and leaves at most 5 entries.
C21_AddKeepsDepth ==
    [][(enc.pc = "value" /\ enc'.pc = "value" /\ enc'.adds = enc.adds + 1)
          => /\ Len(enc'.s) <= 5
             /\ enc'.s[1] \in StateCodes
             /\ Tail(enc'.s) = SubSeq(enc.s, 1, IF Len(enc.s) < 5 THEN Len(enc.s) ELSE 4)]_vars

\* C22: while a worker holds a check and its executor has not returned, the
\* select of every other worker ends at once: it claims a due, enabled,
\* unlocked check of this checker with the earliest next_time if there is
\* one, never the held one, and returns ErrNoCheck if there is none.
C22_OthersProceed ==
    [][\A v \in Workers :
          (/\ pc[v] = "idle"
           /\ pc'[v] \in {"exec", "returned"}
           /\ ret'[v] \notin {"could not start database transaction", "could not get next check"}
           /\ \E w \in Workers : w # v /\ pc[w] = "exec")
            => LET free == { c \in CheckIds : Selectable(c) }
               IN IF free = {}
                  THEN ret'[v] = "ErrNoCheck"
                  ELSE /\ pc'[v] = "exec"
                       /\ check'[v].id \in free
                       /\ \A d \in free :
                            active_checks[check'[v].id].next_time <= active_checks[d].next_time
                       /\ \A w \in Workers :
                            (w # v /\ pc[w] = "exec") => check[w].id # check'[v].id]_vars

\* C23: Next returns nil only when the cycle's update and notification rows
\* were committed.
C23_NilMeansCommitted ==
    \A w \in Workers : (pc[w] = "returned" /\ ret[w] = "nil") => committed[w]

\* C24: a call of Next that has claimed a check ends in a commit or in an
\* error return; the worker is never aborted after the executor returned.
C24_NeverAborts ==
    \A w \in Workers : pc[w] # "crashed"

\* C25: every enabled check of this checker whose next_time has passed is
\* eventually claimed, executed and committed.
C25_DueCheckEventuallyCommitted ==
    \A c \in CheckIds :
        (/\ active_checks[c].enabled
         /\ active_checks[c].checker_id = cfg.CheckerID
         /\ active_checks[c].next_time < now)
            ~> (\E w \in Workers : pc[w] = "returned" /\ committed[w] /\ check[w].id = c)

====
